---- MODULE Spec2Model ----
(***************************************************************************)
(* Model of the `spo storageentity set` command                            *)
(* (src/o365/spo/commands/storageentity-set.ts).                           *)
(*                                                                         *)
(* Text is modelled as a sequence of characters (one-character strings).   *)
(* The fixed fragments of the request template, the URL scheme and the     *)
(* words of a server message are single elements of such a sequence.       *)
(* JavaScript values are tagged records: JUndef, JNull, JStr, JObj, JArr.  *)
(***************************************************************************)
EXTENDS Integers, Sequences, FiniteSets, TLC

VARIABLES
    pc,          \* position of the invocation in the promise chain
    args,        \* args.options
    verbose,     \* this.verbose
    validation,  \* what validate() returned for args
    authToken,   \* auth.service.accessToken
    sent,        \* the HTTP requests issued so far, in order
    log,         \* what cmd.log has printed so far, in order
    cbCount,     \* how many times cb was called
    tokenRes,    \* how ensureAccessToken settled
    digestRes,   \* how the POST to /_api/contextinfo settled
    pqRes        \* how the POST to ProcessQuery settled

vars == <<pc, args, verbose, validation, authToken, sent, log, cbCount,
          tokenRes, digestRes, pqRes>>

(***************************************************************************)
(* Bounds                                                                  *)
(***************************************************************************)
MaxLen == 2      \* longest user-supplied string of the encoding check
MaxMsgLen == 3   \* longest server ErrorMessage, in words

(***************************************************************************)
(* JavaScript values                                                       *)
(***************************************************************************)
JUndef == [t |-> "undef"]
JNull == [t |-> "null"]
JStr(s) == [t |-> "str", s |-> s]
JObj(f) == [t |-> "obj", f |-> f]
JArr(e) == [t |-> "arr", e |-> e]
JBool(b) == [t |-> "bool", b |-> b]

NoFields == [n \in {} |-> JUndef]

\* the result of evaluating an expression: a value, or a thrown TypeError
Val(v) == [thrown |-> FALSE, v |-> v]
Thrown(name) == [thrown |-> TRUE, v |-> JStr(<<name>>)]

\* v.name
Get(v, name) ==
    IF v.t \in {"undef", "null"} THEN Thrown("TypeError")
    ELSE IF v.t = "obj" /\ name \in DOMAIN v.f THEN Val(v.f[name])
    ELSE Val(JUndef)

\* v[0]
First(v) ==
    IF v.t \in {"undef", "null"} THEN Thrown("TypeError")
    ELSE IF v.t = "arr" /\ Len(v.e) > 0 THEN Val(v.e[1])
    ELSE IF v.t = "str" /\ Len(v.s) > 0 THEN Val(JStr(<<v.s[1]>>))
    ELSE Val(JUndef)

\* the truthiness of v in `if (v)` and `v || x`
Truthy(v) ==
    CASE v.t \in {"undef", "null"} -> FALSE
      [] v.t = "str" -> v.s # <<>>
      [] v.t = "bool" -> v.b
      [] OTHER -> TRUE

\* `${v}` in a template literal
ToText(v) ==
    CASE v.t = "undef" -> <<"u", "n", "d", "e", "f", "i", "n", "e", "d">>
      [] v.t = "null" -> <<"n", "u", "l", "l">>
      [] v.t = "str" -> v.s
      [] v.t = "bool" -> IF v.b THEN <<"t", "r", "u", "e">>
                         ELSE <<"f", "a", "l", "s", "e">>
      [] OTHER -> <<"[object Object]">>

\* all sequences over S of length at most n
RECURSIVE SeqsUpTo(_, _)
SeqsUpTo(S, n) ==
    IF n = 0 THEN {<<>>}
    ELSE LET shorter == SeqsUpTo(S, n - 1)
         IN shorter \cup {Append(s, c) : s \in {x \in shorter : Len(x) = n - 1}, c \in S}

(***************************************************************************)
(* XML: escaping, the request template, and reading a request back         *)
(***************************************************************************)
Plain == {"a", ";"}
Special == {"&", "<", ">", "'", "\""}
Alphabet == Plain \cup Special

Entity(c) ==
    CASE c = "&" -> <<"&", "a", "m", "p", ";">>
      [] c = "<" -> <<"&", "l", "t", ";">>
      [] c = ">" -> <<"&", "g", "t", ";">>
      [] c = "'" -> <<"&", "a", "p", "o", "s", ";">>
      [] c = "\"" -> <<"&", "q", "u", "o", "t", ";">>
      [] OTHER -> <<c>>

\* Utils.escapeXml: every & < > ' " replaced by its entity, one pass
RECURSIVE escapeXml(_)
escapeXml(s) ==
    IF s = <<>> THEN <<>> ELSE Entity(Head(s)) \o escapeXml(Tail(s))

\* x || ''
OrEmpty(v) == IF Truthy(v) THEN v ELSE JStr(<<>>)

RequestOpen == "<Request AddExpandoFieldTypeSuffix=\"true\" SchemaVersion=\"15.0.0.0\" LibraryVersion=\"16.0.0.0\" ApplicationName=\"${config.applicationName}\" xmlns=\"http://schemas.microsoft.com/sharepoint/clientquery/2009\">"
SetMethodOpen == "<Method Name=\"SetStorageEntity\" Id=\"29\" ObjectPathId=\"27\">"
GetSiteOpen == "<Method Id=\"25\" ParentId=\"23\" Name=\"GetSiteByUrl\">"
ParamOpen == "<Parameter Type=\"String\">"
ParamClose == "</Parameter>"

Param(text) == <<ParamOpen>> \o text \o <<ParamClose>>

\* RequestBody with the value interpolated as it is
RequestBodyRawValue(o) ==
    <<RequestOpen, "<Actions>",
      "<ObjectPath Id=\"24\" ObjectPathId=\"23\" />",
      "<ObjectPath Id=\"26\" ObjectPathId=\"25\" />",
      "<ObjectPath Id=\"28\" ObjectPathId=\"27\" />",
      SetMethodOpen, "<Parameters>">>
    \o Param(escapeXml(ToText(o.key)))
    \o Param(ToText(o.value))
    \o Param(escapeXml(ToText(OrEmpty(o.description))))
    \o Param(escapeXml(ToText(OrEmpty(o.comment))))
    \o <<"</Parameters>", "</Method>", "</Actions>", "<ObjectPaths>",
         "<Constructor Id=\"23\" TypeId=\"{268004ae-ef6b-4e9b-8425-127220d84719}\" />",
         GetSiteOpen, "<Parameters>">>
    \o Param(escapeXml(ToText(o.appCatalogUrl)))
    \o <<"</Parameters>", "</Method>",
         "<Property Id=\"27\" ParentId=\"25\" Name=\"RootWeb\" />",
         "</ObjectPaths>", "</Request>">>

\* RequestBody without the || '' of description and comment
RequestBodyNoDefault(o) ==
    <<RequestOpen, "<Actions>",
      "<ObjectPath Id=\"24\" ObjectPathId=\"23\" />",
      "<ObjectPath Id=\"26\" ObjectPathId=\"25\" />",
      "<ObjectPath Id=\"28\" ObjectPathId=\"27\" />",
      SetMethodOpen, "<Parameters>">>
    \o Param(escapeXml(ToText(o.key)))
    \o Param(escapeXml(ToText(o.value)))
    \o Param(escapeXml(ToText(o.description)))
    \o Param(escapeXml(ToText(o.comment)))
    \o <<"</Parameters>", "</Method>", "</Actions>", "<ObjectPaths>",
         "<Constructor Id=\"23\" TypeId=\"{268004ae-ef6b-4e9b-8425-127220d84719}\" />",
         GetSiteOpen, "<Parameters>">>
    \o Param(escapeXml(ToText(o.appCatalogUrl)))
    \o <<"</Parameters>", "</Method>",
         "<Property Id=\"27\" ParentId=\"25\" Name=\"RootWeb\" />",
         "</ObjectPaths>", "</Request>">>

\* the body of the ProcessQuery request
RequestBody(o) ==
    <<RequestOpen, "<Actions>",
      "<ObjectPath Id=\"24\" ObjectPathId=\"23\" />",
      "<ObjectPath Id=\"26\" ObjectPathId=\"25\" />",
      "<ObjectPath Id=\"28\" ObjectPathId=\"27\" />",
      SetMethodOpen, "<Parameters>">>
    \o Param(escapeXml(ToText(o.key)))
    \o Param(escapeXml(ToText(o.value)))
    \o Param(escapeXml(ToText(OrEmpty(o.description))))
    \o Param(escapeXml(ToText(OrEmpty(o.comment))))
    \o <<"</Parameters>", "</Method>", "</Actions>", "<ObjectPaths>",
         "<Constructor Id=\"23\" TypeId=\"{268004ae-ef6b-4e9b-8425-127220d84719}\" />",
         GetSiteOpen, "<Parameters>">>
    \o Param(escapeXml(ToText(o.appCatalogUrl)))
    \o <<"</Parameters>", "</Method>",
         "<Property Id=\"27\" ParentId=\"25\" Name=\"RootWeb\" />",
         "</ObjectPaths>", "</Request>">>

(* An XML reader for documents of this vocabulary.  A markup element of the *)
(* sequence opens, closes or is an empty element; any other element is a    *)
(* character of text.  In text, < is never legal and & must start one of    *)
(* the five predefined entity references; > ' " stand for themselves.       *)
Markup(tok) ==
    CASE tok = RequestOpen -> [kind |-> "open", el |-> "Request", name |-> ""]
      [] tok = "<Actions>" -> [kind |-> "open", el |-> "Actions", name |-> ""]
      [] tok = "<ObjectPaths>" -> [kind |-> "open", el |-> "ObjectPaths", name |-> ""]
      [] tok = "<Parameters>" -> [kind |-> "open", el |-> "Parameters", name |-> ""]
      [] tok = ParamOpen -> [kind |-> "open", el |-> "Parameter", name |-> ""]
      [] tok = SetMethodOpen -> [kind |-> "open", el |-> "Method", name |-> "SetStorageEntity"]
      [] tok = GetSiteOpen -> [kind |-> "open", el |-> "Method", name |-> "GetSiteByUrl"]
      [] tok = "</Request>" -> [kind |-> "close", el |-> "Request", name |-> ""]
      [] tok = "</Actions>" -> [kind |-> "close", el |-> "Actions", name |-> ""]
      [] tok = "</ObjectPaths>" -> [kind |-> "close", el |-> "ObjectPaths", name |-> ""]
      [] tok = "</Parameters>" -> [kind |-> "close", el |-> "Parameters", name |-> ""]
      [] tok = ParamClose -> [kind |-> "close", el |-> "Parameter", name |-> ""]
      [] tok = "</Method>" -> [kind |-> "close", el |-> "Method", name |-> ""]
      [] tok \in {"<ObjectPath Id=\"24\" ObjectPathId=\"23\" />",
                  "<ObjectPath Id=\"26\" ObjectPathId=\"25\" />",
                  "<ObjectPath Id=\"28\" ObjectPathId=\"27\" />",
                  "<Constructor Id=\"23\" TypeId=\"{268004ae-ef6b-4e9b-8425-127220d84719}\" />",
                  "<Property Id=\"27\" ParentId=\"25\" Name=\"RootWeb\" />"}
           -> [kind |-> "empty", el |-> "", name |-> ""]
      [] OTHER -> [kind |-> "char", el |-> "", name |-> ""]

\* does the entity of c stand at position i of doc
EntityAt(doc, i, c) ==
    LET e == Entity(c)
    IN /\ i + Len(e) - 1 <= Len(doc)
       /\ SubSeq(doc, i, i + Len(e) - 1) = e

\* st: ok, the open elements, the methods read so far (name and parameter
\* texts), and the text of the parameter being read
RECURSIVE ReadXml(_, _, _)
ReadXml(doc, i, st) ==
    IF ~st.ok THEN st
    ELSE IF i > Len(doc) THEN [st EXCEPT !.ok = (st.open = <<>>)]
    ELSE
      LET tok == doc[i]
          m == Markup(tok)
          depth == Len(st.open)
          inParam == depth > 0 /\ st.open[depth] = "Parameter"
          bad == [st EXCEPT !.ok = FALSE]
      IN CASE m.kind = "open" ->
                IF inParam THEN bad
                ELSE ReadXml(doc, i + 1,
                       [st EXCEPT !.open = Append(@, m.el),
                                  !.methods = IF m.el = "Method"
                                              THEN Append(@, [name |-> m.name, params |-> <<>>])
                                              ELSE @,
                                  !.text = <<>>])
           [] m.kind = "close" ->
                IF depth = 0 \/ st.open[depth] # m.el THEN bad
                ELSE ReadXml(doc, i + 1,
                       [st EXCEPT !.open = SubSeq(@, 1, depth - 1),
                                  !.methods = IF m.el = "Parameter" /\ Len(@) > 0
                                              THEN [@ EXCEPT ![Len(@)].params = Append(@, st.text)]
                                              ELSE @,
                                  !.text = <<>>])
           [] m.kind = "empty" ->
                IF inParam THEN bad ELSE ReadXml(doc, i + 1, st)
           [] OTHER ->
                IF ~inParam \/ tok = "<" THEN bad
                ELSE IF tok = "&" THEN
                  IF \E c \in Special : EntityAt(doc, i, c)
                  THEN LET c == CHOOSE c \in Special : EntityAt(doc, i, c)
                       IN ReadXml(doc, i + Len(Entity(c)),
                                  [st EXCEPT !.text = Append(@, c)])
                  ELSE bad
                ELSE ReadXml(doc, i + 1, [st EXCEPT !.text = Append(@, tok)])

ParseXml(doc) ==
    ReadXml(doc, 1, [ok |-> TRUE, open |-> <<>>, methods |-> <<>>, text |-> <<>>])

(***************************************************************************)
(* Promises, requests and output                                           *)
(***************************************************************************)
Pending == [state |-> "pending", v |-> JUndef]
Resolved(v) == [state |-> "resolved", v |-> v]
Rejected(e) == [state |-> "rejected", v |-> e]

Entry(color, text) == [color |-> color, text |-> text]
Blank == Entry("plain", <<>>)

ContextInfoUrl == "${auth.site.url}/_api/contextinfo"
ProcessQueryUrl == "${auth.site.url}/_vti_bin/client.svc/ProcessQuery"
HintText == "This error is often caused by invalid URL of the app catalog site. Verify, that the URL you specified as an argument of the ${commands.STORAGEENTITY_SET} command is a valid app catalog URL and try again."

\* what a handler of the chain did: the lines it printed, the requests it
\* issued, the calls of cb it made, and whether it threw (err is what)
Ran(lines, reqs, calls) ==
    [log |-> lines, send |-> reqs, cb |-> calls, thrown |-> FALSE, err |-> JUndef]
Threw(lines, e) ==
    [log |-> lines, send |-> <<>>, cb |-> 0, thrown |-> TRUE, err |-> e]

\* the lines printed only when this.verbose
Verbose(v, lines) == IF v THEN lines ELSE <<>>

\* requestOptions of the digest request
ContextInfoOptions(accessToken) ==
    [url |-> ContextInfoUrl,
     authorization |-> <<"Bearer ">> \o ToText(accessToken),
     accept |-> "application/json;odata=nometadata",
     digest |-> JUndef,
     json |-> TRUE,
     body |-> <<>>]

\* OnAccessToken that issues the digest request a second time
OnAccessTokenRetry(accessToken, v) ==
    Ran(Verbose(v, <<Entry("plain", <<"Retrieved access token ">> \o ToText(accessToken)
                                     \o <<". Retrieving request digest...">>),
                     Entry("plain", <<"Executing web request...">>),
                     Entry("plain", <<"[requestOptions]">>),
                     Blank>>),
        <<ContextInfoOptions(accessToken), ContextInfoOptions(accessToken)>>,
        0)

\* first fulfilment handler: the access token arrived
OnAccessToken(accessToken, v) ==
    Ran(Verbose(v, <<Entry("plain", <<"Retrieved access token ">> \o ToText(accessToken)
                                     \o <<". Retrieving request digest...">>),
                     Entry("plain", <<"Executing web request...">>),
                     Entry("plain", <<"[requestOptions]">>),
                     Blank>>),
        <<ContextInfoOptions(accessToken)>>,
        0)

\* RequestDigest that reads a property the response does not have
RequestDigestMisspelt(res) == Get(res, "formDigestValue")

\* the X-RequestDigest header of the ProcessQuery request
RequestDigest(res) == Get(res, "FormDigestValue")

\* requestOptions of the ProcessQuery request (digest: the header's value)
ProcessQueryOptions(digest, o, serviceToken) ==
    [url |-> ProcessQueryUrl,
     authorization |-> <<"Bearer ">> \o ToText(serviceToken),
     accept |-> "",
     digest |-> digest,
     json |-> FALSE,
     body |-> RequestBody(o)]

\* second fulfilment handler: the digest response arrived
OnContextInfo(res, o, serviceToken, v) ==
    LET lines == Verbose(v, <<Entry("plain", <<"Response:">>),
                              Entry("plain", <<"[response]">>),
                              Blank>>)
                 \o <<Entry("plain", <<"Setting tenant property ">> \o ToText(o.key)
                                     \o <<" in ">> \o ToText(o.appCatalogUrl) \o <<"...">>)>>
        digest == RequestDigest(res)
    IN IF digest.thrown THEN Threw(lines, digest.v)
       ELSE Ran(lines \o Verbose(v, <<Entry("plain", <<"Executing web request...">>),
                                      Entry("plain", <<"[requestOptions]">>),
                                      Blank>>),
                <<ProcessQueryOptions(digest.v, o, serviceToken)>>,
                0)

\* JSON.parse of a response text: the text is either malformed or the
\* serialisation of text.json
JSONparse(text) ==
    IF text.wellFormed THEN Val(text.json) ELSE Thrown("SyntaxError")

AccessDenied == <<"Access ", "denied.">>

\* s.indexOf(sub): the first position (from 0) where sub stands in s, or -1
indexOf(s, sub) ==
    LET at == {i \in 1..(Len(s) - Len(sub) + 1) : SubSeq(s, i, i + Len(sub) - 1) = sub}
    IN IF at = {} THEN -1
       ELSE (CHOOSE i \in at : \A j \in at : i <= j) - 1

\* IsAccessDenied that tests indexOf(...) > 0
IsAccessDeniedAfterStart(message) ==
    IF message.t # "str" THEN Thrown("TypeError")
    ELSE Val(JBool(indexOf(message.s, AccessDenied) > 0))

\* response.ErrorInfo.ErrorMessage.indexOf('Access denied.') > -1
\* (throws when ErrorMessage is no string)
IsAccessDenied(message) ==
    IF message.t # "str" THEN Thrown("TypeError")
    ELSE Val(JBool(indexOf(message.s, AccessDenied) > -1))

\* HasErrorInfo with the test inverted
HasErrorInfoInverted(errorInfo) == ~Truthy(errorInfo)

\* if (response.ErrorInfo)
HasErrorInfo(errorInfo) == Truthy(errorInfo)

\* third fulfilment handler: the ProcessQuery response arrived
OnProcessQuery(res, v) ==
    LET lines == Verbose(v, <<Entry("plain", <<"Response:">>),
                              Entry("plain", <<"[response]">>),
                              Blank>>)
        json == JSONparse(res)
        response == First(json.v)
        errorInfo == Get(response.v, "ErrorInfo")
        message == Get(errorInfo.v, "ErrorMessage")
        errorLine == Entry("red", <<"Error: ">> \o ToText(message.v))
        denied == IsAccessDenied(message.v)
    IN IF json.thrown THEN Threw(lines, json.v)
       ELSE IF response.thrown THEN Threw(lines, response.v)
       ELSE IF errorInfo.thrown THEN Threw(lines, errorInfo.v)
       ELSE IF HasErrorInfo(errorInfo.v) THEN
         IF message.thrown THEN Threw(lines, message.v)
         ELSE IF denied.thrown THEN Threw(lines \o <<errorLine>>, denied.v)
         ELSE IF denied.v.b
              THEN Ran(lines \o <<errorLine, Blank, Entry("plain", <<HintText>>), Blank>>,
                       <<>>, 1)
              ELSE Ran(lines \o <<errorLine>>, <<>>, 1)
       ELSE Ran(lines \o <<Entry("green", <<"DONE">>)>>, <<>>, 1)

\* the rejection handler of the last then
OnRejected(err) ==
    Ran(<<Entry("red", <<"Error: ">> \o ToText(err))>>, <<>>, 1)

(***************************************************************************)
(* Validation                                                              *)
(***************************************************************************)
Schemes == {"https://", "http://"}

\* SpoCommand.isValidSharePointUrl: true for an absolute http(s) URL, false
\* for a missing one, a message for anything else
isValidSharePointUrl(url) ==
    IF ~Truthy(url) THEN JBool(FALSE)
    ELSE IF url.t = "str" /\ Len(url.s) > 1 /\ url.s[1] \in Schemes THEN JBool(TRUE)
    ELSE JStr(ToText(url) \o <<" is not a valid SharePoint Online site URL">>)

\* validate that hands the URL check's result on as it is
validateUnchecked(o) == isValidSharePointUrl(o.appCatalogUrl)

\* the function validate() returns, applied to args
validate(o) ==
    LET result == isValidSharePointUrl(o.appCatalogUrl)
    IN IF result = JBool(FALSE)
       THEN JStr(<<"Missing required option appCatalogUrl">>)
       ELSE result

(***************************************************************************)
(* The environment: inputs, the token provider, the two endpoints          *)
(***************************************************************************)
Tokens == {<<"tokenA">>, <<"tokenB">>}

\* auth.ensureAccessToken: resolves with a token, which is then the
\* service's token, or rejects and leaves the service as it was
ensureAccessToken(current) ==
    {[res |-> Resolved(JStr(tk)), service |-> JStr(tk)] : tk \in Tokens}
    \cup {[res |-> Rejected(JStr(<<"AuthError">>)), service |-> current]}

\* what request.post rejects with: a transport failure, a non-2xx status
HttpErrors == {JStr(<<"RequestError">>),
               JStr(<<"StatusCodeError: 401">>),
               JStr(<<"StatusCodeError: 403">>)}

\* what request.post with json: true resolves with: the parsed body, or
\* the body as a string when it is not JSON
DigestBodies == {JObj([FormDigestValue |-> JStr(<<"abc123">>)]),
                 JObj([FormDigestValue |-> JStr(<<"0x1F">>)]),
                 JObj(NoFields),
                 JNull,
                 JStr(<<"<html>">>)}

Malformed == [wellFormed |-> FALSE, json |-> JUndef]
Text(j) == [wellFormed |-> TRUE, json |-> j]

Words == {"Access ", "denied.", "denied"}
Messages == SeqsUpTo(Words, MaxMsgLen)

Succeeded == JObj([SchemaVersion |-> JStr(<<"15.0.0.0">>)])
Failed(message) == JObj([ErrorInfo |-> JObj([ErrorMessage |-> message])])

FirstElements ==
    {Succeeded,
     JObj([SchemaVersion |-> JStr(<<"15.0.0.0">>), ErrorInfo |-> JNull]),
     JObj([ErrorInfo |-> JObj(NoFields)]),
     Failed(JNull),
     JNull}
    \cup {Failed(JStr(m)) : m \in Messages}

\* the bodies the ProcessQuery endpoint may answer with
QueryTexts ==
    {Malformed}
    \cup {Text(j) : j \in {JNull, JObj(NoFields), JStr(<<"o", "k">>), JArr(<<>>)}}
    \cup {Text(JArr(<<e>>)) : e \in FirstElements}
    \cup {Text(JArr(<<Succeeded, Failed(JStr(AccessDenied))>>))}

Str(s) == JStr(s)

\* args.options of the pipeline's runs
Options ==
    [appCatalogUrl : {JUndef, Str(<<"a">>), Str(<<"https://", "a", "&">>)},
     key : {Str(<<"a">>)},
     value : {Str(<<"<", "a">>)},
     description : {JUndef, Str(<<"'">>)},
     comment : {JUndef}]

(***************************************************************************)
(* The invocation                                                          *)
(***************************************************************************)
Init ==
    /\ pc = "start"
    /\ args \in Options
    /\ verbose \in BOOLEAN
    /\ validation = JUndef
    /\ authToken \in {JUndef, JStr(<<"tokenA">>)}
    /\ sent = <<>>
    /\ log = <<>>
    /\ cbCount = 0
    /\ tokenRes = Pending
    /\ digestRes = Pending
    /\ pqRes = Pending

\* the effects of a handler that returned
Apply(h) ==
    /\ log' = log \o h.log
    /\ sent' = sent \o h.send
    /\ cbCount' = cbCount + h.cb

\* a rejection reaches the rejection handler of the last then; lines are
\* what was printed before it
Reject(lines, err) ==
    LET h == OnRejected(err)
    IN /\ log' = log \o lines \o h.log
       /\ sent' = sent \o h.send
       /\ cbCount' = cbCount + h.cb
       /\ pc' = "done"

\* the command is not run: validate() did not return true
Refuse ==
    /\ pc = "start"
    /\ validate(args) # JBool(TRUE)
    /\ validation' = validate(args)
    /\ log' = log \o <<Entry("plain", ToText(validate(args)))>>
    /\ pc' = "rejected"
    /\ UNCHANGED <<args, verbose, authToken, sent, cbCount, tokenRes, digestRes, pqRes>>

\* commandAction up to the call of ensureAccessToken
CommandAction ==
    /\ pc = "start"
    /\ validate(args) = JBool(TRUE)
    /\ validation' = validate(args)
    /\ log' = log \o Verbose(verbose,
                 <<Entry("plain", <<"key option set. Retrieving access token for ${auth.service.resource}...">>)>>)
    /\ pc' = "token"
    /\ UNCHANGED <<args, verbose, authToken, sent, cbCount, tokenRes, digestRes, pqRes>>

TokenResolved ==
    /\ pc = "token"
    /\ \E out \in ensureAccessToken(authToken) :
         /\ out.res.state = "resolved"
         /\ tokenRes' = out.res
         /\ authToken' = out.service
         /\ Apply(OnAccessToken(out.res.v, verbose))
    /\ pc' = "digest"
    /\ UNCHANGED <<args, verbose, validation, digestRes, pqRes>>

TokenRejected ==
    /\ pc = "token"
    /\ \E out \in ensureAccessToken(authToken) :
         /\ out.res.state = "rejected"
         /\ tokenRes' = out.res
         /\ authToken' = out.service
         /\ Reject(<<>>, out.res.v)
    /\ UNCHANGED <<args, verbose, validation, digestRes, pqRes>>

DigestResolved(res) ==
    /\ pc = "digest"
    /\ digestRes' = Resolved(res)
    /\ LET h == OnContextInfo(res, args, authToken, verbose)
       IN IF h.thrown THEN Reject(h.log, h.err)
          ELSE Apply(h) /\ pc' = "query"
    /\ UNCHANGED <<args, verbose, validation, authToken, tokenRes, pqRes>>

DigestRejected(err) ==
    /\ pc = "digest"
    /\ digestRes' = Rejected(err)
    /\ Reject(<<>>, err)
    /\ UNCHANGED <<args, verbose, validation, authToken, tokenRes, pqRes>>

\* an exception of the last fulfilment handler has no handler after it
QueryResolved(text) ==
    /\ pc = "query"
    /\ pqRes' = Resolved(text)
    /\ LET h == OnProcessQuery(text, verbose)
       IN /\ Apply(h)
          /\ pc' = IF h.thrown THEN "unhandled" ELSE "done"
    /\ UNCHANGED <<args, verbose, validation, authToken, tokenRes, digestRes>>

QueryRejected(err) ==
    /\ pc = "query"
    /\ pqRes' = Rejected(err)
    /\ Reject(<<>>, err)
    /\ UNCHANGED <<args, verbose, validation, authToken, tokenRes, digestRes>>

DigestSettled ==
    \/ \E res \in DigestBodies : DigestResolved(res)
    \/ \E err \in HttpErrors : DigestRejected(err)

QuerySettled ==
    \/ \E text \in QueryTexts : QueryResolved(text)
    \/ \E err \in HttpErrors : QueryRejected(err)

Next ==
    \/ Refuse
    \/ CommandAction
    \/ TokenResolved
    \/ TokenRejected
    \/ DigestSettled
    \/ QuerySettled

Spec == Init /\ [][Next]_vars

(***************************************************************************)
(* The encoding of the request, over all short inputs: the invocation is   *)
(* taken at its first suspend point, the digest request sent, and the      *)
(* digest response arrives.  One option ranges over every string of up to  *)
(* MaxLen characters; the others take one of two values each.              *)
(***************************************************************************)
Strings == SeqsUpTo(Alphabet, MaxLen)

Few ==
    [appCatalogUrl : {Str(<<"https://", "a">>), Str(<<"https://", "a", "&", "a">>)},
     key : {Str(<<"a">>), Str(<<"<">>)},
     value : {Str(<<"a", "a">>)},
     description : {JUndef, Str(<<"\"">>)},
     comment : {JUndef, Str(<<"a">>)}]

\* o with one option replaced by any string
Vary(o) ==
    {[o EXCEPT !.key = Str(s)] : s \in Strings}
    \cup {[o EXCEPT !.value = Str(s)] : s \in Strings}
    \cup {[o EXCEPT !.description = Str(s)] : s \in Strings}
    \cup {[o EXCEPT !.comment = Str(s)] : s \in Strings}
    \cup {[o EXCEPT !.appCatalogUrl = Str(<<"https://", "a">> \o s)] : s \in Strings}

AnyOptions == UNION {Vary(o) : o \in Few}

InitBody ==
    /\ pc = "digest"
    /\ args \in AnyOptions
    /\ verbose = FALSE
    /\ validation = validate(args)
    /\ authToken = JStr(<<"tokenA">>)
    /\ sent = OnAccessToken(authToken, verbose).send
    /\ log = <<>>
    /\ cbCount = 0
    /\ tokenRes = Resolved(authToken)
    /\ digestRes = Pending
    /\ pqRes = Pending

Encode == DigestResolved(JObj([FormDigestValue |-> JStr(<<"abc123">>)]))

SpecBody == InitBody /\ [][Encode]_vars

(***************************************************************************)
(* Properties                                                              *)
(***************************************************************************)
Settled == pc \in {"done", "unhandled"}

ErrorPrinted == \E i \in 1..Len(log) : log[i].color = "red"
DonePrinted == \E i \in 1..Len(log) : log[i] = Entry("green", <<"DONE">>)
HintPrinted == \E i \in 1..Len(log) : log[i] = Entry("plain", <<HintText>>)

QuerySent == \E i \in 1..Len(sent) : sent[i].url = ProcessQueryUrl

Has(v, name) == v.t = "obj" /\ name \in DOMAIN v.f

\* the digest fetch failed: rejected, or a body without a FormDigestValue string
DigestFailed ==
    \/ digestRes.state = "rejected"
    \/ /\ digestRes.state = "resolved"
       /\ ~(Has(digestRes.v, "FormDigestValue") /\ digestRes.v.f.FormDigestValue.t = "str")

\* the ProcessQuery response is a JSON array whose first element is an object
QueryAnswered ==
    /\ pqRes.state = "resolved"
    /\ pqRes.v.wellFormed
    /\ pqRes.v.json.t = "arr"
    /\ Len(pqRes.v.json.e) > 0
    /\ pqRes.v.json.e[1].t = "obj"

Element0 == pqRes.v.json.e[1]

\* element 0 carries an ErrorInfo record
CarriesErrorInfo ==
    /\ QueryAnswered
    /\ Has(Element0, "ErrorInfo")
    /\ Element0.f.ErrorInfo.t = "obj"

\* element 0 carries an ErrorInfo with an ErrorMessage string
CarriesMessage ==
    /\ CarriesErrorInfo
    /\ Has(Element0.f.ErrorInfo, "ErrorMessage")
    /\ Element0.f.ErrorInfo.f.ErrorMessage.t = "str"

ServerMessage == Element0.f.ErrorInfo.f.ErrorMessage.s

\* the ProcessQuery response has the expected shape
ExpectedShape ==
    /\ QueryAnswered
    /\ \/ ~Has(Element0, "ErrorInfo")
       \/ Element0.f.ErrorInfo.t = "null"
       \/ CarriesMessage

\* C1: whenever the digest fetch fails (transport, 401/403, a body that is
\* not JSON or lacks FormDigestValue), no ProcessQuery request is sent and an
\* error is printed.
C1_DigestFailureAborts == DigestFailed => (~QuerySent /\ ErrorPrinted)

\* C2: a ProcessQuery response that is malformed or lacks the expected shape
\* ends the invocation with an error printed, never with success and never
\* with nothing.
C2_BadResponseIsReported ==
    (pqRes.state = "resolved" /\ ~ExpectedShape)
        => (pc = "done" /\ ErrorPrinted /\ ~DonePrinted)

\* C3: the digest request is the first request and is sent only once the
\* token is there; the ProcessQuery request is the second and is sent only
\* once the digest response is there; neither is sent twice.
C3_RequestsInOrderAndOnce ==
    /\ Len(sent) <= 2
    /\ \A i \in 1..Len(sent) :
         /\ sent[i].url = ContextInfoUrl
              => (i = 1 /\ tokenRes.state = "resolved")
         /\ sent[i].url = ProcessQueryUrl
              => (i = 2 /\ sent[1].url = ContextInfoUrl /\ digestRes.state = "resolved")
    /\ (Len(sent) = 0) = (pc \in {"start", "rejected", "token"} \/ tokenRes.state = "rejected")

C3_Witness == pc = "done" /\ Len(sent) = 2 /\ pqRes.state = "rejected"

\* C4: element 0 alone decides: with an ErrorInfo the error line with the
\* server's message is printed and DONE is not; without one DONE is printed
\* and no error; never both.
C4_FirstElementDecides ==
    /\ ~(DonePrinted /\ ErrorPrinted)
    /\ (Settled /\ QueryAnswered) =>
         IF CarriesErrorInfo
         THEN /\ ErrorPrinted
              /\ ~DonePrinted
              /\ CarriesMessage =>
                   \E i \in 1..Len(log) :
                       log[i] = Entry("red", <<"Error: ">> \o ServerMessage)
         ELSE DonePrinted /\ ~ErrorPrinted /\ cbCount = 1

C4_Witness ==
    /\ pc = "done"
    /\ pqRes = Resolved(Text(JArr(<<Succeeded, Failed(JStr(AccessDenied))>>)))
    /\ DonePrinted

\* C5: the X-RequestDigest header of a ProcessQuery request is the
\* FormDigestValue of the digest response of this invocation, as it came.
C5_DigestVerbatim ==
    \A i \in 1..Len(sent) :
        sent[i].url = ProcessQueryUrl =>
            /\ digestRes.state = "resolved"
            /\ sent[i].digest = IF Has(digestRes.v, "FormDigestValue")
                                THEN digestRes.v.f.FormDigestValue
                                ELSE JUndef

C5_Witness ==
    /\ QuerySent
    /\ digestRes = Resolved(JObj([FormDigestValue |-> JStr(<<"0x1F">>)]))
    /\ sent[2].digest = JStr(<<"0x1F">>)

\* what an option's parameter should read: the string, or nothing when the
\* option is absent
Given(v) == IF v.t = "str" THEN v.s ELSE <<>>

\* C6: the body is well-formed and reading it back gives, for each of the
\* five options, the string the user supplied.
C6_EscapeRoundTrip ==
    \A i \in 1..Len(sent) :
        sent[i].url = ProcessQueryUrl =>
            LET doc == ParseXml(sent[i].body)
            IN /\ doc.ok
               /\ Len(doc.methods) = 2
               /\ doc.methods[1].params =
                    <<Given(args.key), Given(args.value),
                      Given(args.description), Given(args.comment)>>
               /\ doc.methods[2].params = <<Given(args.appCatalogUrl)>>

C6_Witness ==
    /\ QuerySent
    /\ args.value = Str(<<"<", "&">>)
    /\ ParseXml(sent[2].body).methods[1].params[2] = <<"<", "&">>

\* C7: the SetStorageEntity method has exactly four parameters, key, value,
\* description, comment in this order; an absent or empty description or
\* comment is an empty parameter.
C7_FourParameters ==
    \A i \in 1..Len(sent) :
        sent[i].url = ProcessQueryUrl =>
            LET doc == ParseXml(sent[i].body)
                set == doc.methods[1]
            IN /\ doc.ok
               /\ set.name = "SetStorageEntity"
               /\ Len(set.params) = 4
               /\ set.params[1] = args.key.s
               /\ set.params[2] = args.value.s
               /\ set.params[3] = (IF args.description \in {JUndef, Str(<<>>)}
                                   THEN <<>> ELSE args.description.s)
               /\ set.params[4] = (IF args.comment \in {JUndef, Str(<<>>)}
                                   THEN <<>> ELSE args.comment.s)

C7_Witness ==
    /\ QuerySent
    /\ args.description = JUndef
    /\ args.comment = Str(<<>>)
    /\ ParseXml(sent[2].body).methods[1].params[3] = <<>>

\* "Access denied." stands somewhere in the message
SaysAccessDenied(m) ==
    \E i \in 1..Len(m) : i < Len(m) /\ m[i] = "Access " /\ m[i + 1] = "denied."

\* C8: the hint is printed exactly when element 0 carries an ErrorInfo whose
\* ErrorMessage contains "Access denied."; it then follows the error line,
\* and DONE is not printed.
C8_HintIffAccessDenied ==
    /\ HintPrinted = (Settled /\ CarriesMessage /\ SaysAccessDenied(ServerMessage))
    /\ HintPrinted =>
         /\ ~DonePrinted
         /\ \E i, j \in 1..Len(log) :
              /\ i < j
              /\ log[i] = Entry("red", <<"Error: ">> \o ServerMessage)
              /\ log[j] = Entry("plain", <<HintText>>)

C8_Witness ==
    /\ pc = "done"
    /\ CarriesMessage
    /\ ServerMessage = <<"Access ", "denied.", "denied">>
    /\ HintPrinted

\* C9: validate() returns true exactly when the URL check does, and a
\* message otherwise; no request is issued for an input it did not accept.
C9_RejectedBeforeNetwork ==
    /\ validation # JUndef =>
         /\ (validation = JBool(TRUE))
              = (isValidSharePointUrl(args.appCatalogUrl) = JBool(TRUE))
         /\ validation # JBool(TRUE) => (validation.t = "str" /\ pc = "rejected")
    /\ (pc = "rejected" \/ validation # JBool(TRUE)) => sent = <<>>

C9_Witness ==
    /\ pc = "rejected"
    /\ args.appCatalogUrl = JUndef
    /\ validation = JStr(<<"Missing required option appCatalogUrl">>)
    /\ sent = <<>>

\* C10: once the invocation has settled, cb has been called exactly once.
C10_CallbackOnce == Settled => cbCount = 1

====
